---- MODULE Spec2Model ----
(***************************************************************************)
(* The mycelium operator: the two reconcilers wired by Manager::new        *)
(* (minecraft_set::reconcile, minecraft_proxy::reconcile), the shared      *)
(* generic_reconcile routine, the error policy, and the Kubernetes objects *)
(* they server-side-apply.                                                 *)
(***************************************************************************)
EXTENDS Integers, Sequences, FiniteSets, TLC

(***************************************************************************)
(* Bounds of the model.                                                    *)
(***************************************************************************)
\* the clock (Utc::now) takes the values 0..MaxClock
MaxClock == 1
\* a CR is retried until its failure streak reaches MaxStreak
MaxStreak == 2
\* a controller stops picking up work once its handled-events counter is MaxHandled
MaxHandled == 1
\* a listed MinecraftSet has 0..MaxReplicas replicas
MaxReplicas == 2

(***************************************************************************)
(* Program constants.                                                      *)
(***************************************************************************)
RequeueSecs == 360
ServicePortNum == 25565
SetTargetPort == 25565
ProxyTargetPort == 25577

\* the value of an optional field that is not set
None == "null"

PDB == "PodDisruptionBudget"
STS == "StatefulSet"
SVC == "Service"
SEC == "Secret"
ChildKinds == {PDB, STS, SVC, SEC}

RequiredVars == {"MYCELIUM_FW_TOKEN", "MYCELIUM_ENDPOINT", "MYCELIUM_RUNNER_IMAGE"}

\* the value an operator environment variable has when it is set
EnvValue(v) ==
    CASE v = "MYCELIUM_FW_TOKEN" -> "global-secret"
      [] v = "MYCELIUM_ENDPOINT" -> "http://mycelium:8080"
      [] v = "MYCELIUM_RUNNER_IMAGE" -> "runner:1"
      [] OTHER -> None

\* MyceliumConfig as Manager::new fills it
Config ==
    [forwarding_secret |-> EnvValue("MYCELIUM_FW_TOKEN"),
     runner_image |-> EnvValue("MYCELIUM_RUNNER_IMAGE")]

(***************************************************************************)
(* The custom resources the controllers are handed.  Optional fields that  *)
(* are absent hold None.                                                   *)
(***************************************************************************)
NoVct == [present |-> FALSE, name |-> None]

CRS ==
    { [id |-> "S1", kind |-> "MinecraftSet", ns |-> "ns1", name |-> "a", uid |-> "u1",
       replicas |-> 2, labels |-> {<<"tier", "prod">>},
       config |-> << [name |-> "cfg", path |-> "server.properties"] >>,
       volume |-> "vol", vct |-> [present |-> TRUE, name |-> "data"],
       jvm |-> "-Xmx1G", jar |-> [type |-> "paper", version |-> "1.19.3", build |-> "123"],
       plugins |-> << "http://p/x.jar" >>],
      [id |-> "P1", kind |-> "MinecraftProxy", ns |-> "ns1", name |-> "a", uid |-> "u2",
       replicas |-> 1, labels |-> {<<"mycelium.njha.dev/env", "prod">>},
       config |-> << >>,
       volume |-> "pvol", vct |-> NoVct,
       jvm |-> None, jar |-> [type |-> "velocity", version |-> "3.1.2", build |-> "45"],
       plugins |-> << >>],
      [id |-> "Mns", kind |-> "MinecraftSet", ns |-> None, name |-> "c", uid |-> "u3",
       replicas |-> 1, labels |-> {}, config |-> << >>, volume |-> None, vct |-> NoVct,
       jvm |-> None, jar |-> [type |-> "paper", version |-> "1.19.3", build |-> "123"],
       plugins |-> << >>],
      [id |-> "Mname", kind |-> "MinecraftSet", ns |-> "ns1", name |-> None, uid |-> "u4",
       replicas |-> 1, labels |-> {}, config |-> << >>, volume |-> None, vct |-> NoVct,
       jvm |-> None, jar |-> [type |-> "paper", version |-> "1.19.3", build |-> "123"],
       plugins |-> << >>],
      [id |-> "Muid", kind |-> "MinecraftProxy", ns |-> "ns1", name |-> "d", uid |-> None,
       replicas |-> 1, labels |-> {}, config |-> << >>, volume |-> None, vct |-> NoVct,
       jvm |-> None, jar |-> [type |-> "velocity", version |-> "3.1.2", build |-> "45"],
       plugins |-> << >>] }

CRIds == {c.id : c \in CRS}
CR(id) == CHOOSE c \in CRS : c.id = id
Malformed == {c \in CRS : c.ns = None \/ c.name = None \/ c.uid = None}
WellFormed == CRS \ Malformed

\* #[kube(shortname = ...)] of the two kinds
ShortnameOf(kind) == IF kind = "MinecraftSet" THEN "mcset" ELSE "mcproxy"
\* the service target port of the two kinds
PortOf(kind) == IF kind = "MinecraftSet" THEN SetTargetPort ELSE ProxyTargetPort

VARIABLES
    envp,        \* the operator environment: the variables that are set
    phase,       \* "startup", "running", "aborted" (panic in Manager::new), "panicked"
    clock,       \* Utc::now()
    last_event,  \* State.last_event
    metrics,     \* Metrics: the two counters and the two histograms' sample counts
    cluster,     \* the child objects held by the API server
    pc,          \* per CR: the routine reconciling it and the patch it awaits
    issued,      \* per CR: the patches its current (or last) reconcile sent, with their outcome
    last,        \* the reconcile that returned last in this process, and what it returned
    sched,       \* the controller's last requeue decision, with the CR's failure streak
    intr,        \* the last interrupted reconcile: its CR and the patches it had completed
    store,       \* the MinecraftSets and MinecraftProxies the API server lists
    servers,     \* the last answer of Manager::get_sets, with the request it answers
    done,        \* the top-level tasks of main whose future has completed
    lock,        \* the RwLock around State: the task holding it for writing, those reading
    hb           \* per task: where it stands in the statement that touches State, and
                 \* the value it carries (the time it read, or its copy of the state)

vars == <<envp, phase, clock, last_event, metrics, cluster, pc, issued, last, sched, intr,
          store, servers, done, lock, hb>>

(***************************************************************************)
(* Results of fallible functions: Ok(v) or Err(kind).                      *)
(***************************************************************************)
Ok(v) == [ok |-> TRUE, val |-> v]
Err(e) == [ok |-> FALSE, err |-> e]
ErrKinds == {"KubeError", "MyceliumError"}

NoValueFrom == [set |-> FALSE]
EnvLit(n, v) == [name |-> n, value |-> v, value_from |-> NoValueFrom]

RECURSIVE JoinComma(_)
JoinComma(s) ==
    IF s = << >> THEN ""
    ELSE IF Len(s) = 1 THEN s[1] ELSE s[1] \o "," \o JoinComma(Tail(s))

make_volume_mount(co) == [name |-> co.name, mount_path |-> "/config/" \o co.path]

make_volume(co) == [name |-> co.name, config_map |-> co.name]

\* configs.iter().map(make_volume_mount).collect()
ConfigMounts(configs) == [i \in 1..Len(configs) |-> make_volume_mount(configs[i])]

\* configs.iter().map(make_volume).collect()
ConfigVolumes(configs) == [i \in 1..Len(configs) |-> make_volume(configs[i])]

get_download_url(kind, version, build) ==
    "https://papermc.io/api/v2/projects/" \o kind \o "/versions/" \o version
        \o "/builds/" \o build \o "/downloads/" \o kind \o "-" \o version \o "-" \o build \o ".jar"

\* kube's ResourceExt::name_any: the name, or the empty string when there is none
name_any(cr) == IF cr.name = None THEN "" ELSE cr.name

object_to_owner_reference(kind, meta) ==
    IF meta.name = None THEN Err("MyceliumError")
    ELSE IF meta.uid = None THEN Err("MyceliumError")
    ELSE Ok([api_version |-> "mycelium.njha.dev/v1alpha1", kind |-> kind,
             name |-> meta.name, uid |-> meta.uid, controller |-> None])

\* the owner reference as object_to_owner_reference returns it, controller unset
owner_reference_plain(cr) ==
    object_to_owner_reference(cr.kind, [name |-> cr.name, uid |-> cr.uid])

\* OwnerReference { controller: Some(true), ..object_to_owner_reference(meta)? }
owner_reference(cr) ==
    LET r == object_to_owner_reference(cr.kind, [name |-> cr.name, uid |-> cr.uid])
    IN  IF r.ok THEN Ok([r.val EXCEPT !.controller = "true"]) ELSE r

\* the pod label set {mycelium.njha.dev/<shortname>: <name>}
labels(shortname, name) == {<<"mycelium.njha.dev/" \o shortname, name>>}

\* volume mounts, volumes and claim templates of the generic routine
GenericVolumes(cr) ==
    LET mounts == ConfigMounts(cr.config)
        vols   == ConfigVolumes(cr.config)
    IN  IF cr.vct.present
        THEN IF cr.vct.name = None THEN Err("MyceliumError")
             ELSE Ok([volume_mounts |-> Append(mounts, [name |-> cr.vct.name, mount_path |-> "/data"]),
                      volumes |-> vols,
                      tpl_volume |-> << cr.vct >>])
        ELSE IF cr.volume # None
        THEN Ok([volume_mounts |-> Append(mounts, [name |-> cr.volume, mount_path |-> "/data"]),
                 volumes |-> Append(vols, [name |-> cr.volume, config_map |-> None]),
                 tpl_volume |-> << >>])
        ELSE Ok([volume_mounts |-> mounts, volumes |-> vols, tpl_volume |-> << >>])

\* the extra environment the type-specific caller hands to the generic routine
ExtraEnv(cr) ==
    IF cr.kind = "MinecraftSet"
    THEN << EnvLit("MYCELIUM_RUNNER_KIND", "game"),
            EnvLit("MYCELIUM_PLUGINS", JoinComma(cr.plugins)) >>
    ELSE << EnvLit("MYCELIUM_RUNNER_KIND", "proxy"),
            EnvLit("MYCELIUM_PLUGINS",
                   JoinComma(Append(cr.plugins, "mycelium-velocity-plugin-all.jar"))),
            EnvLit("MYCELIUM_ENDPOINT", EnvValue("MYCELIUM_ENDPOINT")),
            [name |-> "K8S_NAMESPACE", value |-> None,
             value_from |-> [set |-> TRUE, field_path |-> "metadata.namespace"]],
            [name |-> "K8S_NAME", value |-> None,
             value_from |-> [set |-> TRUE, field_path |-> "metadata.name"]] >>

\* the three operator-owned variables, then the caller's extras
GenericEnv(cr, extra) ==
    << EnvLit("MYCELIUM_JVM_OPTS", cr.jvm),
       [name |-> "MYCELIUM_FW_TOKEN", value |-> None,
        value_from |-> [set |-> TRUE, key |-> "forwarding_token",
                        name |-> name_any(cr), optional |-> "false"]],
       EnvLit("MYCELIUM_RUNNER_JAR_URL",
              get_download_url(cr.jar.type, cr.jar.version, cr.jar.build)) >> \o extra

\* the patches go to the client's default namespace instead of the CR's
PatchTargetDefaultNs(cr) == [ns |-> "default", name |-> name_any(cr)]

\* the target of the four patches: Api::namespaced(client, &ns).patch(&name, ..)
PatchTarget(cr) == [ns |-> cr.ns, name |-> name_any(cr)]

\* an object as the API server keeps it: where it lives, and the fields the
\* field manager mycelium.njha.dev applied
Object(kind, target, owners, spec) ==
    [kind |-> kind, ns |-> target.ns, name |-> target.name,
     owner_references |-> owners, spec |-> spec]

\* the workload stamped with the heartbeat of the reconcile that built it
GenericStatefulSetStamped(cr, shortname, extra) ==
    LET v == GenericVolumes(cr).val
    IN  Object(STS, PatchTarget(cr), << owner_reference(cr).val >>,
               [selector |-> labels(shortname, name_any(cr)),
                service_name |-> name_any(cr),
                replicas |-> cr.replicas,
                pod_labels |-> labels(shortname, name_any(cr)),
                annotations |-> {<<"prometheus.io/port", "9970">>,
                                 <<"prometheus.io/scrape", "true">>,
                                 <<"mycelium.njha.dev/last-event", ToString(last_event)>>},
                container_name |-> name_any(cr),
                image |-> Config.runner_image,
                env |-> GenericEnv(cr, extra),
                volume_mounts |-> v.volume_mounts,
                volumes |-> v.volumes,
                volume_claim_templates |-> v.tpl_volume])

GenericStatefulSet(cr, shortname, extra) ==
    LET v == GenericVolumes(cr).val
    IN  Object(STS, PatchTarget(cr), << owner_reference(cr).val >>,
               [selector |-> labels(shortname, name_any(cr)),
                service_name |-> name_any(cr),
                replicas |-> cr.replicas,
                pod_labels |-> labels(shortname, name_any(cr)),
                annotations |-> {<<"prometheus.io/port", "9970">>,
                                 <<"prometheus.io/scrape", "true">>},
                container_name |-> name_any(cr),
                image |-> Config.runner_image,
                env |-> GenericEnv(cr, extra),
                volume_mounts |-> v.volume_mounts,
                volumes |-> v.volumes,
                volume_claim_templates |-> v.tpl_volume])

\* a budget that lets one pod go
GenericBudgetOneUnavailable(cr, shortname) ==
    Object(PDB, PatchTarget(cr), << owner_reference(cr).val >>,
           [max_unavailable |-> 1, min_available |-> None,
            selector |-> labels(shortname, name_any(cr))
                           \cup {<<"mycelium.njha.dev/destroyable", "false">>}])

GenericBudget(cr, shortname) ==
    Object(PDB, PatchTarget(cr), << owner_reference(cr).val >>,
           [max_unavailable |-> 0, min_available |-> None,
            selector |-> labels(shortname, name_any(cr))
                           \cup {<<"mycelium.njha.dev/destroyable", "false">>}])

GenericService(cr, shortname, port) ==
    Object(SVC, PatchTarget(cr), << owner_reference(cr).val >>,
           [cluster_ip |-> "None",
            selector |-> labels(shortname, name_any(cr)),
            ports |-> << [protocol |-> "TCP", port |-> ServicePortNum, target_port |-> port] >>])

\* base64(SHA-224(forwarding_secret ++ ns)): the digest and the encoding are
\* injective on the strings the model uses, so the token is named by its input
Token(secret, ns) == << "base64", << "sha224", secret \o ns >> >>

\* the token salted with the name of the CR as well
GenericSecretPerName(cr) ==
    Object(SEC, PatchTarget(cr), << owner_reference(cr).val >>,
           [string_data |-> {<<"forwarding_token",
                               Token(Config.forwarding_secret, cr.ns \o name_any(cr))>>}])

GenericSecret(cr) ==
    Object(SEC, PatchTarget(cr), << owner_reference(cr).val >>,
           [string_data |-> {<<"forwarding_token", Token(Config.forwarding_secret, cr.ns)>>}])

\* the child object of one kind that generic_reconcile builds for a CR
GenericChild(cr, kind) ==
    CASE kind = PDB -> GenericBudget(cr, ShortnameOf(cr.kind))
      [] kind = STS -> GenericStatefulSet(cr, ShortnameOf(cr.kind), ExtraEnv(cr))
      [] kind = SVC -> GenericService(cr, ShortnameOf(cr.kind), PortOf(cr.kind))
      [] kind = SEC -> GenericSecret(cr)

(***************************************************************************)
(* The children the two wired reconcilers build themselves.                *)
(***************************************************************************)
RunnerImage == "harbor.ocf.berkeley.edu/mycelium/runner:" \o "0.1.0"

\* volume mounts and volumes of minecraft_set::reconcile
SetVolumes(cr) ==
    LET mounts == ConfigMounts(cr.config)
        vols   == ConfigVolumes(cr.config)
    IN  IF cr.volume # None
        THEN [volume_mounts |-> Append(mounts, [name |-> cr.volume, mount_path |-> "/data"]),
              volumes |-> Append(vols, [name |-> cr.volume, config_map |-> None])]
        ELSE [volume_mounts |-> mounts, volumes |-> vols]

SetStatefulSet(cr) ==
    Object(STS, [ns |-> cr.ns, name |-> cr.name], << owner_reference(cr).val >>,
           [selector |-> labels("mcset", cr.name),
            service_name |-> cr.name,
            replicas |-> cr.replicas,
            pod_labels |-> labels("mcset", cr.name),
            annotations |-> {},
            container_name |-> cr.name,
            image |-> RunnerImage,
            env |-> << EnvLit("MYCELIUM_RUNNER_KIND", "game"),
                       EnvLit("MYCELIUM_FW_TOKEN", Config.forwarding_secret),
                       EnvLit("MYCELIUM_PLUGINS", JoinComma(cr.plugins)),
                       EnvLit("MYCELIUM_RUNNER_JAR_URL",
                              get_download_url(cr.jar.type, cr.jar.version, cr.jar.build)),
                       EnvLit("MYCELIUM_JVM_OPTS", cr.jvm) >>,
            volume_mounts |-> SetVolumes(cr).volume_mounts,
            volumes |-> SetVolumes(cr).volumes,
            volume_claim_templates |-> << >>])

SetService(cr) ==
    Object(SVC, [ns |-> cr.ns, name |-> cr.name], << owner_reference(cr).val >>,
           [cluster_ip |-> "None",
            selector |-> labels("mcset", cr.name),
            ports |-> << [protocol |-> "TCP", port |-> ServicePortNum,
                          target_port |-> SetTargetPort] >>])

\* the value of a CR label, or a default
LabelOr(tags, key, default) ==
    IF \E t \in tags : t[1] = key THEN (CHOOSE t \in tags : t[1] = key)[2] ELSE default

ProxyStatefulSet(cr) ==
    Object(STS, [ns |-> cr.ns, name |-> cr.name], << owner_reference(cr).val >>,
           [selector |-> labels("mcproxy", cr.name),
            service_name |-> "",
            replicas |-> cr.replicas,
            pod_labels |-> labels("mcproxy", cr.name),
            annotations |-> {<<"prometheus.io/port", "8080">>,
                             <<"prometheus.io/scrape", "true">>},
            container_name |-> cr.name,
            image |-> RunnerImage,
            env |-> << EnvLit("MYCELIUM_RUNNER_KIND", "proxy"),
                       EnvLit("MYCELIUM_FW_TOKEN", Config.forwarding_secret),
                       EnvLit("MYCELIUM_PLUGINS",
                              JoinComma(Append(cr.plugins, "mycelium-velocity-plugin-all.jar"))),
                       EnvLit("K8S_NAMESPACE", cr.ns),
                       EnvLit("MYCELIUM_ENV",
                              LabelOr(cr.labels, "mycelium.njha.dev/env", "development")),
                       EnvLit("MYCELIUM_PROXY",
                              LabelOr(cr.labels, "mycelium.njha.dev/proxy", "global")),
                       EnvLit("MYCELIUM_ENDPOINT", EnvValue("MYCELIUM_ENDPOINT")),
                       EnvLit("MYCELIUM_RUNNER_JAR_URL",
                              get_download_url(cr.jar.type, cr.jar.version, cr.jar.build)),
                       EnvLit("MYCELIUM_JVM_OPTS", cr.jvm) >>,
            volume_mounts |-> ConfigMounts(cr.config),
            volumes |-> ConfigVolumes(cr.config),
            volume_claim_templates |-> << >>])

ProxyService(cr) ==
    Object(SVC, [ns |-> cr.ns, name |-> cr.name], << owner_reference(cr).val >>,
           [cluster_ip |-> None,
            selector |-> labels("mcproxy", cr.name),
            ports |-> << [protocol |-> "TCP", port |-> ServicePortNum,
                          target_port |-> ProxyTargetPort] >>])

\* the child object of one kind that the wired reconciler of the CR's kind builds
WiredChild(cr, kind) ==
    IF cr.kind = "MinecraftSet"
    THEN (IF kind = STS THEN SetStatefulSet(cr) ELSE SetService(cr))
    ELSE (IF kind = STS THEN ProxyStatefulSet(cr) ELSE ProxyService(cr))


(***************************************************************************)
(* Manager::get_sets: the proxy is read, its matchLabels are written as a  *)
(* label selector string, the MinecraftSets of the namespace are listed    *)
(* under that selector, and one entry is made per set and replica index.   *)
(***************************************************************************)
\* Option<T>
NoneOpt == [some |-> FALSE]
Some(v) == [some |-> TRUE, val |-> v]
unwrap_or_default(o, default) == IF o.some THEN o.val ELSE default

\* ProxyOptions::default() and LabelSelector::default()
DefaultProxyOptions == [hostname |-> None, priority |-> NoneOpt]
DefaultLabelSelector == [match_labels |-> NoneOpt]

\* the label pairs that occur on sets and in selectors
LabelPairs == {<<"tier", "prod">>, <<"zone", "x">>}

\* a MinecraftSet as the API server stores it
MkSet(name, ns, uid, replicas, tags, proxy) ==
    [id |-> name, kind |-> "MinecraftSet", ns |-> ns, name |-> name, uid |-> uid,
     replicas |-> replicas, labels |-> tags, config |-> << >>, volume |-> None, vct |-> NoVct,
     jvm |-> None, jar |-> [type |-> "paper", version |-> "1.19.3", build |-> "123"],
     plugins |-> << >>, proxy |-> proxy]

\* a MinecraftProxy as the API server stores it
MkProxy(name, ns, uid, selector) ==
    [id |-> name, kind |-> "MinecraftProxy", ns |-> ns, name |-> name, uid |-> uid,
     replicas |-> 1, labels |-> {}, config |-> << >>, volume |-> None, vct |-> NoVct,
     jvm |-> None, jar |-> [type |-> "velocity", version |-> "3.1.2", build |-> "45"],
     plugins |-> << >>, selector |-> selector]

\* the selectors a proxy may carry: none, one without matchLabels, and matchLabels
\* (a BTreeMap, so ordered by key) of zero, one or two pairs
Selectors ==
    {NoneOpt, Some(DefaultLabelSelector), Some([match_labels |-> Some(<< >>)]),
     Some([match_labels |-> Some(<< <<"tier", "prod">> >>)]),
     Some([match_labels |-> Some(<< <<"tier", "prod">>, <<"zone", "x">> >>)])}

\* the listings of the API server: set a in either namespace, labelled or not, set b
\* in ns1 with both labels, every replica count up to MaxReplicas, and proxy p in ns1
Stores ==
    {[sets |-> << MkSet("a", ns, "ua", ra, la,
                        Some([hostname |-> "a.example", priority |-> Some(1)])),
                  MkSet("b", "ns1", "ub", rb, LabelPairs, NoneOpt) >>,
      proxies |-> << MkProxy("p", "ns1", "up", sel) >>] :
        ns \in {"ns1", "ns2"}, ra \in 0..MaxReplicas, rb \in 0..MaxReplicas,
        la \in {{}, {<<"tier", "prod">>}}, sel \in Selectors}

\* the listing of the operator's own runs: two sets labelled tier=prod and a proxy
\* selecting tier=prod
BaseStore ==
    [sets |-> << MkSet("a", "ns1", "ua", 2, {<<"tier", "prod">>},
                       Some([hostname |-> "a.example", priority |-> Some(1)])),
                 MkSet("b", "ns1", "ub", 1, LabelPairs, NoneOpt) >>,
     proxies |-> << MkProxy("p", "ns1", "up", Some([match_labels |-> Some(<< <<"tier", "prod">> >>)])) >>]

NoServers == [ns |-> None, name |-> None, res |-> Err("none")]

\* .iter().map(|i| format!("{}={}", i.0, i.1)).collect::<Vec<String>>().join(",")
label_selector(proxy_spec) ==
    LET ml == unwrap_or_default(
                  unwrap_or_default(proxy_spec.selector, DefaultLabelSelector).match_labels,
                  << >>)
    IN  JoinComma([i \in 1..Len(ml) |-> ml[i][1] \o "=" \o ml[i][2]])

\* the requirement lists a selector string can stand for
SelectorTerms ==
    {<< >>} \cup {<< t >> : t \in LabelPairs} \cup {<< t, u >> : t \in LabelPairs, u \in LabelPairs}

\* the API server reads the labelSelector parameter back into its requirements
ParseLabelSelector(str) ==
    CHOOSE r \in SelectorTerms : JoinComma([i \in 1..Len(r) |-> r[i][1] \o "=" \o r[i][2]]) = str

\* an object is listed when its labels meet every requirement of the selector
MatchesSelector(tags, str) ==
    LET r == ParseLabelSelector(str) IN \A i \in 1..Len(r) : r[i] \in tags

\* the sets of every namespace are listed under the selector
ListSetsAllNamespaces(st, ns, str) ==
    SelectSeq(st.sets, LAMBDA set : MatchesSelector(set.labels, str))

\* Api::namespaced(client, &ns).list(&ListParams::default().labels(&label_selector))
ListSets(st, ns, str) ==
    SelectSeq(st.sets, LAMBDA set : set.ns = ns /\ MatchesSelector(set.labels, str))

\* the inclusive range 0..=spec.replicas
SetEntriesInclusive(set) ==
    LET proxy == unwrap_or_default(set.proxy, DefaultProxyOptions)
    IN  [k \in 1..(set.replicas + 1) |->
            [address |-> set.name \o "-" \o ToString(k - 1) \o "." \o set.name \o "."
                            \o set.ns \o ".svc.cluster.local",
             host |-> proxy.hostname,
             name |-> set.name \o "-" \o ToString(k - 1),
             priority |-> proxy.priority]]

\* (0..spec.replicas).map(|val| VelocityServerEntry { .. })
SetEntries(set) ==
    LET proxy == unwrap_or_default(set.proxy, DefaultProxyOptions)
        n == IF set.replicas > 0 THEN set.replicas ELSE 0
    IN  [k \in 1..n |->
            [address |-> set.name \o "-" \o ToString(k - 1) \o "." \o set.name \o "."
                            \o set.ns \o ".svc.cluster.local",
             host |-> proxy.hostname,
             name |-> set.name \o "-" \o ToString(k - 1),
             priority |-> proxy.priority]]

\* the entries of the sets put together from the last set of the listing to the first
RECURSIVE FlatMapEntriesBackwards(_)
FlatMapEntriesBackwards(items) ==
    IF items = << >> THEN << >>
    ELSE FlatMapEntriesBackwards(Tail(items)) \o SetEntries(Head(items))

\* objects.items.iter().flat_map(..).collect()
RECURSIVE FlatMapEntries(_)
FlatMapEntries(items) ==
    IF items = << >> THEN << >> ELSE SetEntries(Head(items)) \o FlatMapEntries(Tail(items))

\* the proxy is fetched by name; a proxy that is not there, or an API failure of
\* either call, is returned as the error
get_sets(st, ns, name, apiOk) ==
    LET found == SelectSeq(st.proxies, LAMBDA p : p.ns = ns /\ p.name = name)
    IN  IF ~apiOk \/ found = << >> THEN Err("KubeError")
        ELSE Ok(FlatMapEntries(ListSets(st, ns, label_selector(found[1]))))

(***************************************************************************)
(* The API server: server-side apply under one field manager.  The object  *)
(* of the same kind, namespace and name is replaced by the applied one     *)
(* (the manager owns every field it sent, and no other manager writes).    *)
(***************************************************************************)
SameKey(x, o) == x.kind = o.kind /\ x.ns = o.ns /\ x.name = o.name

\* a create that leaves an object that is already there as it is
ApplyCreateOnly(c, o) == IF \E x \in c : SameKey(x, o) THEN c ELSE c \cup {o}

Apply(c, o) == {x \in c : ~SameKey(x, o)} \cup {o}

(***************************************************************************)
(* State.                                                                  *)
(***************************************************************************)
Idle == [fn |-> "idle", step |-> 0]
NoLast == [cr |-> None, res |-> None]
NoRequeue == [some |-> FALSE, secs |-> 0]
NoSched == [cr |-> None, action |-> NoRequeue, streak |-> 0]
NoIntr == [cr |-> None, k |-> 0]
ZeroMetrics ==
    [set_handled_events |-> 0, proxy_handled_events |-> 0,
     set_reconcile_duration |-> 0, proxy_reconcile_duration |-> 0]
\* RwLock::new(State::new()): nobody holds the lock
Unlocked == [writer |-> None, readers |-> {}]
\* the tasks that touch State: the reconciles of the CRs and the handler of /state
StateTasks == CRIds \cup {"http"}
\* a task that is not inside a statement on State
NotInStatement == [at |-> "none", now |-> 0]

Init ==
    /\ envp \in SUBSET RequiredVars
    /\ phase = "startup"
    /\ clock = 0
    /\ last_event = 0
    /\ metrics = ZeroMetrics
    /\ cluster = {}
    /\ pc = [c \in CRIds |-> Idle]
    /\ issued = [c \in CRIds |-> << >>]
    /\ last = NoLast
    /\ sched = NoSched
    /\ intr = NoIntr
    /\ store = BaseStore
    /\ servers = NoServers
    /\ done = {}
    /\ lock = Unlocked
    /\ hb = [t \in StateTasks |-> NotInStatement]

\* a slip in the order: the workload is applied before its budget
PatchOrderWorkloadFirst(fn) ==
    IF fn = "generic" THEN << STS, PDB, SVC, SEC >> ELSE << STS, SVC >>

\* the order in which a routine sends its patches
PatchOrder(fn) ==
    IF fn = "generic" THEN << PDB, STS, SVC, SEC >> ELSE << STS, SVC >>

\* the previous reconcile of the CR sent every patch of its routine and none failed
RanToCompletion(log, fn) ==
    /\ Len(log) = Len(PatchOrder(fn))
    /\ \A i \in 1..Len(log) : log[i].ok

\* some other CR's reconcile writes the children an interrupted CR is waiting to recover
Disturbs(id) ==
    /\ intr.cr # None
    /\ intr.cr # id
    /\ PatchTarget(CR(intr.cr)) = PatchTarget(CR(id))

(***************************************************************************)
(* Manager::new: the client, the metrics, the state, the configuration     *)
(* from the environment, and the listing that checks the CRDs.             *)
(***************************************************************************)
ManagerNew ==
    /\ phase = "startup"
    /\ \E apiOk \in BOOLEAN :
         IF apiOk /\ {"MYCELIUM_FW_TOKEN", "MYCELIUM_RUNNER_IMAGE"} \subseteq envp
         THEN /\ phase' = "running"
              /\ metrics' = ZeroMetrics
              /\ last_event' = clock
         ELSE /\ phase' = "aborted"
              /\ UNCHANGED <<metrics, last_event>>
    /\ UNCHANGED <<envp, clock, cluster, pc, issued, last, sched, intr, store, servers, done, lock, hb>>

\* time passes
Tick ==
    /\ clock < MaxClock
    /\ clock' = clock + 1
    /\ UNCHANGED <<envp, phase, last_event, metrics, cluster, pc, issued, last, sched, intr,
                   store, servers, done, lock, hb>>

\* the process dies (a crash, or after a panic) and is started again; every
\* reconcile in flight is cut off where it stands
Restart ==
    /\ phase \in {"running", "panicked"}
    /\ phase' = "startup"
    /\ pc' = [c \in CRIds |-> Idle]
    /\ \/ \E id \in CRIds :
            /\ pc[id].fn # "idle"
            /\ intr' = [cr |-> id, k |-> pc[id].step - 1]
       \/ /\ \A id \in CRIds : pc[id].fn = "idle"
          /\ UNCHANGED intr
    /\ last' = NoLast
    /\ sched' = NoSched
    /\ UNCHANGED <<envp, clock, last_event, metrics, cluster, issued, store, servers, done, lock, hb>>

(***************************************************************************)
(* generic_reconcile, called with the shortname, the port and the extra    *)
(* environment of the CR's kind.  Up to the first patch it runs without    *)
(* suspending.                                                             *)
(***************************************************************************)
GenericStart(id) ==
    LET cr == CR(id)
    IN  /\ phase = "running"
        /\ pc[id] = Idle
        /\ issued' = [issued EXCEPT ![id] = << >>]
        /\ intr' = IF intr.cr = id /\ RanToCompletion(issued[id], "generic") THEN NoIntr ELSE intr
        /\ IF cr.ns = None \/ ~owner_reference(cr).ok
           THEN /\ last' = [cr |-> id, res |-> "MyceliumError"]
                /\ UNCHANGED <<last_event, pc>>
           ELSE /\ last_event' = clock
                /\ IF ~GenericVolumes(cr).ok
                   THEN /\ last' = [cr |-> id, res |-> "MyceliumError"]
                        /\ UNCHANGED pc
                   ELSE /\ pc' = [pc EXCEPT ![id] = [fn |-> "generic", step |-> 1]]
                        /\ UNCHANGED last
        /\ UNCHANGED <<envp, phase, clock, metrics, cluster, sched, store, servers, done, lock, hb>>

\* the awaited patch returns successfully
GenericPatchOk(id) ==
    LET cr == CR(id)
        order == PatchOrder("generic")
        kind == order[pc[id].step]
    IN  /\ phase = "running"
        /\ pc[id].fn = "generic"
        /\ cluster' = Apply(cluster, GenericChild(cr, kind))
        /\ issued' = [issued EXCEPT ![id] = Append(@, [kind |-> kind, ok |-> TRUE])]
        /\ intr' = IF Disturbs(id) THEN NoIntr ELSE intr
        /\ IF pc[id].step = Len(order)
           THEN /\ pc' = [pc EXCEPT ![id] = Idle]
                /\ last' = [cr |-> id, res |-> "Ok"]
           ELSE /\ pc' = [pc EXCEPT ![id] = [fn |-> "generic", step |-> pc[id].step + 1]]
                /\ UNCHANGED last
        /\ UNCHANGED <<envp, phase, clock, last_event, metrics, sched, store, servers, done, lock, hb>>

\* the failure of the awaited patch is dropped and the routine goes on
GenericPatchErrIgnored(id) ==
    LET order == PatchOrder("generic")
        kind == order[pc[id].step]
    IN  /\ phase = "running"
        /\ pc[id].fn = "generic"
        /\ issued' = [issued EXCEPT ![id] = Append(@, [kind |-> kind, ok |-> FALSE])]
        /\ IF pc[id].step = Len(order)
           THEN /\ pc' = [pc EXCEPT ![id] = Idle]
                /\ last' = [cr |-> id, res |-> "Ok"]
           ELSE /\ pc' = [pc EXCEPT ![id] = [fn |-> "generic", step |-> pc[id].step + 1]]
                /\ UNCHANGED last
        /\ UNCHANGED <<envp, phase, clock, last_event, metrics, cluster, sched, intr,
                       store, servers, done, lock, hb>>

\* the awaited patch fails: the error is returned at once
GenericPatchErr(id) ==
    LET kind == PatchOrder("generic")[pc[id].step]
    IN  /\ phase = "running"
        /\ pc[id].fn = "generic"
        /\ issued' = [issued EXCEPT ![id] = Append(@, [kind |-> kind, ok |-> FALSE])]
        /\ pc' = [pc EXCEPT ![id] = Idle]
        /\ last' = [cr |-> id, res |-> "KubeError"]
        /\ intr' = [cr |-> id, k |-> pc[id].step - 1]
        /\ UNCHANGED <<envp, phase, clock, last_event, metrics, cluster, sched,
                       store, servers, done, lock, hb>>

NextGeneric ==
    \/ ManagerNew
    \/ Tick
    \/ Restart
    \/ \E id \in CRIds : GenericStart(id)
    \/ \E id \in CRIds : GenericPatchOk(id)
    \/ \E id \in CRIds : GenericPatchErr(id)

InitGeneric == Init /\ envp = RequiredVars

SpecGeneric == InitGeneric /\ [][NextGeneric]_vars

(***************************************************************************)
(* The join and the routine over the listings of the API server: get_sets  *)
(* answers requests for a proxy, and generic_reconcile is run for the      *)
(* listed CRs one run at a time.                                           *)
(***************************************************************************)
\* the CRs of a listing
StoreCRs(st) ==
    {st.sets[i] : i \in 1..Len(st.sets)} \cup {st.proxies[i] : i \in 1..Len(st.proxies)}

\* the first k patches of a run, each applied after the one before it
RECURSIVE ApplyInOrder(_, _, _, _)
ApplyInOrder(c, cr, order, k) ==
    IF k = 0 \/ order = << >> THEN c
    ELSE ApplyInOrder(Apply(c, GenericChild(cr, Head(order))), cr, Tail(order), k - 1)

\* Manager::get_sets answers a request for the servers of a proxy
GetSets(ns, name) ==
    /\ phase = "running"
    /\ \E apiOk \in BOOLEAN :
         servers' = [ns |-> ns, name |-> name, res |-> get_sets(store, ns, name, apiOk)]
    /\ UNCHANGED <<envp, phase, clock, last_event, metrics, cluster, pc, issued, last, sched,
                   intr, store, done, lock, hb>>

\* one run of generic_reconcile for a listed CR, with no other run under way: the
\* API server refuses the first patch, or accepts all of them (what a refusal
\* between two patches leaves behind is followed patch by patch in SpecGeneric)
GenericReconcile(cr) ==
    /\ phase = "running"
    /\ cr \in StoreCRs(store)
    /\ IF cr.ns = None \/ ~owner_reference(cr).ok
       THEN /\ last' = [cr |-> cr.id, res |-> "MyceliumError"]
            /\ UNCHANGED <<last_event, cluster>>
       ELSE /\ last_event' = clock
            /\ IF ~GenericVolumes(cr).ok
               THEN /\ last' = [cr |-> cr.id, res |-> "MyceliumError"]
                    /\ UNCHANGED cluster
               ELSE \E k \in {0, Len(PatchOrder("generic"))} :
                       /\ cluster' = ApplyInOrder(cluster, cr, PatchOrder("generic"), k)
                       /\ last' = [cr |-> cr.id,
                                   res |-> IF k = Len(PatchOrder("generic"))
                                           THEN "Ok" ELSE "KubeError"]
    /\ UNCHANGED <<envp, phase, clock, metrics, pc, issued, sched, intr, store, servers, done, lock, hb>>

NextJoin ==
    \/ ManagerNew
    \/ Tick
    \/ \E ns \in {"ns1", "ns2"} : GetSets(ns, "p")
    \/ \E cr \in StoreCRs(store) : GenericReconcile(cr)

InitJoin ==
    /\ envp = RequiredVars
    /\ phase = "startup"
    /\ clock = 0
    /\ last_event = 0
    /\ metrics = ZeroMetrics
    /\ cluster = {}
    /\ pc = [c \in CRIds |-> Idle]
    /\ issued = [c \in CRIds |-> << >>]
    /\ last = NoLast
    /\ sched = NoSched
    /\ intr = NoIntr
    /\ store \in Stores
    /\ servers = NoServers
    /\ done = {}
    /\ lock = Unlocked
    /\ hb = [t \in StateTasks |-> NotInStatement]

SpecJoin == InitJoin /\ [][NextJoin]_vars

(***************************************************************************)
(* The two controllers Manager::new starts: minecraft_set::reconcile and   *)
(* minecraft_proxy::reconcile, each answered by error_policy on failure.   *)
(***************************************************************************)
\* a backoff that doubles with the failure streak
error_policy_backoff(error, ctx) ==
    [some |-> TRUE, secs |-> RequeueSecs * (2 ^ sched.streak)]

error_policy(error, ctx) == [some |-> TRUE, secs |-> RequeueSecs]

\* a success that asks to be run again after five minutes
ReconcileOkTimed == [some |-> TRUE, secs |-> RequeueSecs - 60]

\* ReconcilerAction { requeue_after: None }
ReconcileOkAction == NoRequeue

\* the number of failures in a row of the CR the controller decided on last
StreakOf(id) == IF sched.cr = id THEN sched.streak ELSE 0

\* the controller's answer to a reconcile that returned Err(error)
OnFailure(id, error) ==
    /\ last' = [cr |-> id, res |-> error]
    /\ sched' = [cr |-> id, action |-> error_policy(error, CR(id).kind),
                 streak |-> StreakOf(id) + 1]

\* a panic inside a reconcile unwinds the controller task and main with it
OnPanic(id) ==
    /\ phase' = "panicked"
    /\ last' = [cr |-> id, res |-> "panic"]
    /\ UNCHANGED sched

SetStart(id) ==
    LET cr == CR(id)
    IN  /\ phase = "running"
        /\ cr.kind = "MinecraftSet"
        /\ pc[id] = Idle
        /\ StreakOf(id) < MaxStreak
        /\ metrics.set_handled_events < MaxHandled
        /\ last_event' = clock
        /\ issued' = [issued EXCEPT ![id] = << >>]
        /\ intr' = IF intr.cr = id /\ RanToCompletion(issued[id], "set") THEN NoIntr ELSE intr
        /\ IF cr.name = None \/ cr.ns = None
           THEN OnPanic(id) /\ UNCHANGED pc
           ELSE IF ~owner_reference(cr).ok
           THEN OnFailure(id, owner_reference(cr).err) /\ UNCHANGED <<phase, pc>>
           ELSE /\ pc' = [pc EXCEPT ![id] = [fn |-> "set", step |-> 1]]
                /\ UNCHANGED <<phase, last, sched>>
        /\ UNCHANGED <<envp, clock, metrics, cluster, store, servers, done, lock, hb>>

ProxyStart(id) ==
    LET cr == CR(id)
    IN  /\ phase = "running"
        /\ cr.kind = "MinecraftProxy"
        /\ pc[id] = Idle
        /\ StreakOf(id) < MaxStreak
        /\ metrics.proxy_handled_events < MaxHandled
        /\ last_event' = clock
        /\ issued' = [issued EXCEPT ![id] = << >>]
        /\ intr' = IF intr.cr = id /\ RanToCompletion(issued[id], "proxy") THEN NoIntr ELSE intr
        /\ IF cr.name = None \/ cr.ns = None
           THEN OnPanic(id) /\ UNCHANGED pc
           ELSE IF ~owner_reference(cr).ok
           THEN OnFailure(id, owner_reference(cr).err) /\ UNCHANGED <<phase, pc>>
           ELSE IF "MYCELIUM_ENDPOINT" \notin envp
           THEN OnPanic(id) /\ UNCHANGED pc
           ELSE /\ pc' = [pc EXCEPT ![id] = [fn |-> "proxy", step |-> 1]]
                /\ UNCHANGED <<phase, last, sched>>
        /\ UNCHANGED <<envp, clock, metrics, cluster, store, servers, done, lock, hb>>

\* one pair of metrics shared by the two kinds: every success is recorded on both
ObserveShared(m, fn) ==
    [m EXCEPT !.set_reconcile_duration = @ + 1, !.set_handled_events = @ + 1,
              !.proxy_reconcile_duration = @ + 1, !.proxy_handled_events = @ + 1]

\* the histogram sample and the counter a successful reconcile records
Observe(m, fn) ==
    IF fn = "set"
    THEN [m EXCEPT !.set_reconcile_duration = @ + 1, !.set_handled_events = @ + 1]
    ELSE [m EXCEPT !.proxy_reconcile_duration = @ + 1, !.proxy_handled_events = @ + 1]

\* the awaited patch returns successfully; after the last one the metrics
\* are recorded and the reconcile returns
WiredPatchOk(id) ==
    LET cr == CR(id)
        fn == pc[id].fn
        order == PatchOrder(fn)
        kind == order[pc[id].step]
    IN  /\ phase = "running"
        /\ fn \in {"set", "proxy"}
        /\ cluster' = Apply(cluster, WiredChild(cr, kind))
        /\ issued' = [issued EXCEPT ![id] = Append(@, [kind |-> kind, ok |-> TRUE])]
        /\ intr' = IF Disturbs(id) THEN NoIntr ELSE intr
        /\ IF pc[id].step = Len(order)
           THEN /\ pc' = [pc EXCEPT ![id] = Idle]
                /\ metrics' = Observe(metrics, fn)
                /\ last' = [cr |-> id, res |-> "Ok"]
                /\ sched' = [cr |-> id, action |-> ReconcileOkAction, streak |-> 0]
           ELSE /\ pc' = [pc EXCEPT ![id] = [fn |-> fn, step |-> pc[id].step + 1]]
                /\ UNCHANGED <<metrics, last, sched>>
        /\ UNCHANGED <<envp, phase, clock, last_event, store, servers, done, lock, hb>>

\* the awaited patch fails: the error is returned at once and the error
\* policy answers it
WiredPatchErr(id) ==
    LET fn == pc[id].fn
        kind == PatchOrder(fn)[pc[id].step]
    IN  /\ phase = "running"
        /\ fn \in {"set", "proxy"}
        /\ issued' = [issued EXCEPT ![id] = Append(@, [kind |-> kind, ok |-> FALSE])]
        /\ pc' = [pc EXCEPT ![id] = Idle]
        /\ OnFailure(id, "KubeError")
        /\ intr' = [cr |-> id, k |-> pc[id].step - 1]
        /\ UNCHANGED <<envp, phase, clock, last_event, metrics, cluster, store, servers, done, lock, hb>>

Next ==
    \/ ManagerNew
    \/ Tick
    \/ Restart
    \/ \E id \in CRIds : SetStart(id)
    \/ \E id \in CRIds : ProxyStart(id)
    \/ \E id \in CRIds : WiredPatchOk(id)
    \/ \E id \in CRIds : WiredPatchErr(id)

Spec == Init /\ [][Next]_vars

(***************************************************************************)
(* main: Manager::new, then the two controller streams and the HTTP server *)
(* are polled by one tokio::select!.  A branch completes in the poll that  *)
(* finds its future ready; main then returns Ok(()), and the process ends  *)
(* with the other futures dropped where they stand.                        *)
(***************************************************************************)
Tasks == {"set_controller", "proxy_controller", "server"}

\* main goes on only when all three futures have completed
join_all(ready) == ready = Tasks

\* tokio::select!: main goes on when one of the futures has completed
select(ready) == ready # {}

\* the future of a top-level task completes: the controller stream ends, or the
\* server stops
TaskReturns(t) ==
    /\ phase = "running"
    /\ t \notin done
    /\ done' = done \cup {t}
    /\ phase' = IF select(done') THEN "exited" ELSE phase
    /\ UNCHANGED <<envp, clock, last_event, metrics, cluster, pc, issued, last, sched, intr,
                   store, servers, lock, hb>>

NextMain ==
    \/ ManagerNew
    \/ \E id \in CRIds : SetStart(id)
    \/ \E id \in CRIds : ProxyStart(id)
    \/ \E id \in CRIds : WiredPatchOk(id)
    \/ \E id \in CRIds : WiredPatchErr(id)
    \/ \E ns \in {"ns1", "ns2"} : GetSets(ns, "p")
    \/ \E t \in Tasks : TaskReturns(t)

InitMain == Init /\ envp = RequiredVars

SpecMain == InitMain /\ [][NextMain]_vars

(***************************************************************************)
(* The lock around State, statement by statement.  A reconcile begins with *)
(*   state.write().expect("last_event").last_event = Utc::now();           *)
(* which evaluates the assigned value first (the clock is read), then the  *)
(* place (the write lock is taken), stores, and drops the guard at the end *)
(* of the statement.  The handler of /state runs                           *)
(*   state.read().expect("state getter").clone()                           *)
(* on a worker thread of the HTTP server.  The two controller streams are  *)
(* polled by main's select! on the single thread of the actix runtime.     *)
(***************************************************************************)
\* the reconciles the runtime thread is inside of, between two suspension points
OnThread == {id \in CRIds : hb[id].at # "none"}

\* a work-stealing runtime: any worker may poll a reconcile at any time
PollsWorkStealing(id) == TRUE

\* the runtime thread polls one reconcile at a time, and leaves it only at a
\* suspension point
Polls(id) == OnThread \subseteq {id}

\* the guard is bound to a variable that lives to the end of the reconcile
KeepGuard(l) == l

\* the temporary write guard is dropped at the end of the statement
DropGuard(l) == [l EXCEPT !.writer = None]

\* Utc::now(): the assigned value is evaluated first
ReadClock(id) ==
    /\ phase = "running"
    /\ pc[id] = Idle
    /\ hb[id].at = "none"
    /\ Polls(id)
    /\ StreakOf(id) < MaxStreak
    /\ IF CR(id).kind = "MinecraftSet"
       THEN metrics.set_handled_events < MaxHandled
       ELSE metrics.proxy_handled_events < MaxHandled
    /\ hb' = [hb EXCEPT ![id] = [at |-> "read", now |-> clock]]
    /\ UNCHANGED <<envp, phase, clock, last_event, metrics, cluster, pc, issued, last, sched,
                   intr, store, servers, done, lock>>

\* state.write(): blocks while anybody holds the lock
AcquireWrite(id) ==
    /\ phase = "running"
    /\ hb[id].at = "read"
    /\ lock = Unlocked
    /\ lock' = [lock EXCEPT !.writer = id]
    /\ hb' = [hb EXCEPT ![id].at = "locked"]
    /\ UNCHANGED <<envp, phase, clock, last_event, metrics, cluster, pc, issued, last, sched,
                   intr, store, servers, done>>

\* .last_event = <the value read>
StoreLastEvent(id) ==
    /\ phase = "running"
    /\ hb[id].at = "locked"
    /\ last_event' = hb[id].now
    /\ hb' = [hb EXCEPT ![id].at = "stored"]
    /\ UNCHANGED <<envp, phase, clock, metrics, cluster, pc, issued, last, sched, intr,
                   store, servers, done, lock>>

\* the statement ends and the guard is dropped; the reconcile runs on to its
\* first patch, or ends before it
ReleaseWrite(id) ==
    LET cr == CR(id)
        fn == IF cr.kind = "MinecraftSet" THEN "set" ELSE "proxy"
    IN  /\ phase = "running"
        /\ hb[id].at = "stored"
        /\ lock' = DropGuard(lock)
        /\ hb' = [hb EXCEPT ![id] = NotInStatement]
        /\ issued' = [issued EXCEPT ![id] = << >>]
        /\ intr' = IF intr.cr = id /\ RanToCompletion(issued[id], fn) THEN NoIntr ELSE intr
        /\ IF cr.name = None \/ cr.ns = None
           THEN OnPanic(id) /\ UNCHANGED pc
           ELSE IF ~owner_reference(cr).ok
           THEN OnFailure(id, owner_reference(cr).err) /\ UNCHANGED <<phase, pc>>
           ELSE IF fn = "proxy" /\ "MYCELIUM_ENDPOINT" \notin envp
           THEN OnPanic(id) /\ UNCHANGED pc
           ELSE /\ pc' = [pc EXCEPT ![id] = [fn |-> fn, step |-> 1]]
                /\ UNCHANGED <<phase, last, sched>>
        /\ UNCHANGED <<envp, clock, last_event, metrics, cluster, store, servers, done>>

\* state.read(): blocks while a writer holds the lock
StateReadLock ==
    /\ phase = "running"
    /\ hb["http"].at = "none"
    /\ lock.writer = None
    /\ lock' = [lock EXCEPT !.readers = @ \cup {"http"}]
    /\ hb' = [hb EXCEPT !["http"].at = "locked"]
    /\ UNCHANGED <<envp, phase, clock, last_event, metrics, cluster, pc, issued, last, sched,
                   intr, store, servers, done>>

\* .clone(), and the read guard is dropped
StateClone ==
    /\ phase = "running"
    /\ hb["http"].at = "locked"
    /\ lock' = [lock EXCEPT !.readers = @ \ {"http"}]
    /\ hb' = [hb EXCEPT !["http"] = [at |-> "none", now |-> last_event]]
    /\ UNCHANGED <<envp, phase, clock, last_event, metrics, cluster, pc, issued, last, sched,
                   intr, store, servers, done>>

NextLock ==
    \/ ManagerNew
    \/ Tick
    \/ \E id \in CRIds : ReadClock(id)
    \/ \E id \in CRIds : AcquireWrite(id)
    \/ \E id \in CRIds : StoreLastEvent(id)
    \/ \E id \in CRIds : ReleaseWrite(id)
    \/ \E id \in CRIds : Polls(id) /\ WiredPatchOk(id)
    \/ \E id \in CRIds : Polls(id) /\ WiredPatchErr(id)
    \/ StateReadLock
    \/ StateClone

InitLock == Init /\ envp = RequiredVars

SpecLock == InitLock /\ [][NextLock]_vars

(***************************************************************************)
(* Properties.                                                             *)
(***************************************************************************)
IsPrefix(s, t) == Len(s) <= Len(t) /\ \A i \in 1..Len(s) : s[i] = t[i]

KindsOf(log) == [i \in 1..Len(log) |-> log[i].kind]

\* the objects of one kind the API server holds under the namespace and name of a CR
ChildrenAt(cr, kind) ==
    {o \in cluster : o.kind = kind /\ o.ns = cr.ns /\ o.name = cr.name}

\* the objects of one kind whose owner references name the CR's uid
OwnedBy(cr, kind) ==
    {o \in cluster : /\ o.kind = kind
                     /\ cr.uid # None
                     /\ \E i \in 1..Len(o.owner_references) : o.owner_references[i].uid = cr.uid}

\* all four children under the CR's name are there and carry the CR's owner reference
OwnsAllFour(cr) ==
    \A kind \in ChildKinds : \E o \in ChildrenAt(cr, kind) : o \in OwnedBy(cr, kind)

\* C1: in one run of generic_reconcile the patches are sent in the order budget,
\* workload, service, secret; a patch is sent only when every earlier one of the
\* run has returned successfully, and nothing is sent after a failed patch.
C1_PatchOrder ==
    \A id \in CRIds :
        LET log == issued[id]
        IN  /\ IsPrefix(KindsOf(log), << PDB, STS, SVC, SEC >>)
            /\ \A i \in 1..(Len(log) - 1) : log[i].ok
            /\ pc[id].fn = "generic" =>
                 /\ Len(log) = pc[id].step - 1
                 /\ \A i \in 1..Len(log) : log[i].ok

\* a set and a proxy have both been reconciled through all four patches
C1_Witness ==
    /\ KindsOf(issued["S1"]) = << PDB, STS, SVC, SEC >>
    /\ KindsOf(issued["P1"]) = << PDB, STS, SVC, SEC >>
    /\ issued["P1"][4].ok

\* what one uninterrupted run of generic_reconcile leaves on an empty cluster
OneRun(cr) ==
    Apply(Apply(Apply(Apply({}, GenericChild(cr, PDB)), GenericChild(cr, STS)),
                GenericChild(cr, SVC)), GenericChild(cr, SEC))

\* the reconcile of the CR that returned last ran to completion, and the run of the
\* CR before it was cut off (by a crash or an API error) after intr.k patches, with
\* no other CR writing the same children since
Recovered(id) ==
    /\ intr.cr = id
    /\ intr.k \in 0..3
    /\ pc[id] = Idle
    /\ last = [cr |-> id, res |-> "Ok"]

C3_Idempotent ==
    [][\A id \in CRIds :
         (pc[id].fn = "generic" /\ OwnsAllFour(CR(id)) /\ issued'[id] # issued[id])
            => cluster' = cluster]_vars

\* a second reconcile of a CR is under way on top of the four children of its first
C3_Witness ==
    \E id \in CRIds : pc[id].fn = "generic" /\ pc[id].step = 3 /\ OwnsAllFour(CR(id))

\* C4: every reconcile of the set or proxy controller that returns success has
\* applied the budget, the workload, the service and the secret of its CR.
C4_FourChildren ==
    \A id \in CRIds :
        (last = [cr |-> id, res |-> "Ok"] /\ pc[id] = Idle) =>
            \A kind \in ChildKinds :
                /\ \E i \in 1..Len(issued[id]) : issued[id][i] = [kind |-> kind, ok |-> TRUE]
                /\ ChildrenAt(CR(id), kind) # {}

\* C5: for every CR and every kind of child, at most one object is owned by the CR,
\* and it has the CR's name and lives in the CR's namespace.
C5_OneChildPerKind ==
    \A cr \in CRS : \A kind \in ChildKinds :
        /\ Cardinality(OwnedBy(cr, kind)) <= 1
        /\ \A o \in OwnedBy(cr, kind) : o.name = cr.name /\ o.ns = cr.ns

\* both CRs of one name have been reconciled and each owns some of the four children
C5_Witness ==
    /\ Cardinality(cluster) = 4
    /\ OwnedBy(CR("S1"), STS) # {}
    /\ OwnedBy(CR("P1"), SEC) # {}

\* C6: every child a reconcile applies carries exactly one owner reference, with
\* controller=true and the kind, name and uid of the CR being reconciled.
C6_Ownership ==
    [][\A id \in CRIds :
         (pc[id].fn = "generic" /\ Len(issued'[id]) = Len(issued[id]) + 1
                                /\ issued'[id][Len(issued'[id])].ok)
            => LET cr == CR(id)
                   kind == issued'[id][Len(issued'[id])].kind
                   written == {o \in cluster' :
                                  o.kind = kind /\ o.ns = cr.ns /\ o.name = cr.name}
               IN  /\ Cardinality(written) = 1
                   /\ \A o \in written :
                        /\ Len(o.owner_references) = 1
                        /\ o.owner_references[1].controller = "true"
                        /\ o.owner_references[1].kind = cr.kind
                        /\ o.owner_references[1].name = cr.name
                        /\ o.owner_references[1].uid = cr.uid]_vars

\* the four children of the proxy have been applied
C6_Witness == OwnsAllFour(CR("P1")) /\ Len(issued["P1"]) = 4

DestroyableLabel == "mycelium.njha.dev/destroyable"

\* the labels of a pod of the workload: the template's, and the destroyable label
\* when the pod has been given one
PodLabels(sts, d) ==
    sts.spec.pod_labels \cup (IF d = None THEN {} ELSE {<<DestroyableLabel, d>>})

\* the eviction API refuses a pod that a budget of its namespace selects while the
\* budget allows no disruption
EvictionDenied(ns, podLabels) ==
    \E b \in cluster :
        /\ b.kind = PDB
        /\ b.ns = ns
        /\ b.spec.selector \subseteq podLabels
        /\ b.spec.max_unavailable = 0

\* C7: once a CR is reconciled, evicting a pod of its workload is denied when the
\* pod has no destroyable label or destroyable=false, and permitted with
\* destroyable=true.
C7_EvictionSafety ==
    \A cr \in WellFormed :
        OwnsAllFour(cr) =>
            \A sts \in ChildrenAt(cr, STS) : \A d \in {None, "false", "true"} :
                EvictionDenied(cr.ns, PodLabels(sts, d)) <=> (d # "true")

\* C8: every failure a set or proxy reconcile returns is answered with a requeue
\* after 360 seconds, whatever the error and however many failures came before.
C8_FixedRequeue ==
    last.res \in ErrKinds =>
        /\ sched.cr = last.cr
        /\ sched.streak >= 1
        /\ sched.action = [some |-> TRUE, secs |-> 360]

\* the same CR has failed twice in a row, the second time on an API error
C8_Witness == last.res = "KubeError" /\ sched.streak = 2

\* C9: the reconcile of a CR without namespace, name or uid returns an error, does
\* not panic, and sends no patch.
C9_MalformedReturnsError ==
    \A cr \in Malformed :
        last.cr = cr.id =>
            /\ last.res \in ErrKinds
            /\ phase # "panicked"
            /\ issued[cr.id] = << >>

\* C10: with a required variable missing the operator stops in Manager::new: it
\* never runs, no reconcile starts and none returns or panics.
C10_FailFast ==
    envp # RequiredVars =>
        /\ phase \in {"startup", "aborted"}
        /\ \A id \in CRIds : pc[id] = Idle
        /\ last = NoLast

\* the secrets the API server holds
Secrets == {o \in cluster : o.kind = SEC}

\* the value a secret holds under the key forwarding_token
ForwardingToken(o) == (CHOOSE d \in o.spec.string_data : d[1] = "forwarding_token")[2]

\* the bytes that were hashed into a token
HashInput(token) == token[2][2]

\* C11: the forwarding tokens written by reconciles of CRs of one namespace are all
\* the same value, whatever the CR's name, kind and spec and whenever the reconcile
\* ran; the tokens of two namespaces are made from different hash inputs.
C11_TokenPure ==
    \A x \in Secrets : \A y \in Secrets :
        /\ x.ns = y.ns => ForwardingToken(x) = ForwardingToken(y)
        /\ x.ns # y.ns => HashInput(ForwardingToken(x)) # HashInput(ForwardingToken(y))

\* a set and the proxy of ns1 and a set of ns2 have their secrets, the last of them
\* written at a later time than the first
C11_Witness ==
    /\ \E x \in Secrets : x.ns = "ns2"
    /\ \E x \in Secrets : \E y \in Secrets :
          /\ x.ns = "ns1" /\ y.ns = "ns1"
          /\ x.owner_references[1].kind = "MinecraftSet"
          /\ y.owner_references[1].kind = "MinecraftProxy"
    /\ last_event = 1
    /\ last.res = "Ok"

\* the workloads the API server holds
Workloads == {o \in cluster : o.kind = STS}

\* the entries of a workload's container environment with a given name
EnvEntries(o, n) == {o.spec.env[i] : i \in {j \in 1..Len(o.spec.env) : o.spec.env[j].name = n}}

\* C12: in every applied workload the MYCELIUM_FW_TOKEN entry refers to key
\* forwarding_token of the secret named like the CR and carries no value; the
\* operator's forwarding secret is the literal value of no entry of any workload.
C12_TokenBySecretRef ==
    \A o \in Workloads :
        /\ EnvEntries(o, "MYCELIUM_FW_TOKEN") # {}
        /\ \A e \in EnvEntries(o, "MYCELIUM_FW_TOKEN") :
              /\ e.value = None
              /\ e.value_from.set
              /\ e.value_from.key = "forwarding_token"
              /\ e.value_from.name = o.name
        /\ \A i \in 1..Len(o.spec.env) : o.spec.env[i].value # Config.forwarding_secret

\* the proxy a request names, and the pairs of its selector.matchLabels
RequestedProxy == CHOOSE p \in StoreCRs(store) :
                      p.kind = "MinecraftProxy" /\ p.ns = servers.ns /\ p.name = servers.name

MatchLabelsOf(p) ==
    IF p.selector.some /\ p.selector.val.match_labels.some
    THEN {p.selector.val.match_labels.val[i] : i \in 1..Len(p.selector.val.match_labels.val)}
    ELSE {}

\* the sets of the request's namespace that carry every pair of the proxy's matchLabels
MatchingSets ==
    {set \in StoreCRs(store) : /\ set.kind = "MinecraftSet"
                               /\ set.ns = servers.ns
                               /\ MatchLabelsOf(RequestedProxy) \subseteq set.labels}

RECURSIVE SumReplicas(_)
SumReplicas(S) ==
    IF S = {} THEN 0 ELSE LET x == CHOOSE x \in S : TRUE IN x.replicas + SumReplicas(S \ {x})

\* the entries of an answer that are named after a replica of a set
EntriesFor(set, i) ==
    {k \in 1..Len(servers.res.val) :
        servers.res.val[k].name = set.name \o "-" \o ToString(i)}

\* C13: an answer of get_sets for a proxy has as many entries as the matching sets of
\* the namespace have replicas: for each matching set and each i in 0..replicas-1
\* exactly one entry, named {set}-{i} with address {set}-{i}.{set}.{ns}.svc.cluster.local,
\* and no entry for a set of another namespace or a set that does not match.
C13_JoinCorrect ==
    servers.res.ok =>
        /\ Len(servers.res.val) = SumReplicas(MatchingSets)
        /\ \A set \in MatchingSets : \A i \in 0..(set.replicas - 1) :
              /\ Cardinality(EntriesFor(set, i)) = 1
              /\ \A k \in EntriesFor(set, i) :
                    servers.res.val[k].address =
                        set.name \o "-" \o ToString(i) \o "." \o set.name \o "."
                            \o servers.ns \o ".svc.cluster.local"
        /\ \A k \in 1..Len(servers.res.val) :
              \E set \in MatchingSets : \E i \in 0..(set.replicas - 1) : k \in EntriesFor(set, i)

\* the proxy selects tier=prod, both sets are in its namespace and labelled, and the
\* answer has the two entries of set a and the one of set b
C13_Witness ==
    /\ servers.res.ok
    /\ Len(servers.res.val) = 3
    /\ Cardinality(MatchingSets) = 2
    /\ MatchLabelsOf(RequestedProxy) = {<<"tier", "prod">>}
    /\ \A k \in 1..2 : k \in EntriesFor(store.sets[1], k - 1)

\* C14: the answer for a proxy whose selector is absent or has no matchLabels
\* pair is the empty list, whatever sets its namespace holds.
C14_EmptySelectsNothing ==
    (servers.res.ok /\ MatchLabelsOf(RequestedProxy) = {}) => servers.res.val = << >>

\* the listed sets with no replica
EmptySets == {set \in StoreCRs(store) : set.kind = "MinecraftSet" /\ set.replicas = 0}

\* C15: a set with replicas=0 has no entry in any answer of get_sets; its reconcile
\* is not rejected, and when it has returned Ok the workload of the set is applied
\* with replicas 0 and the disruption budget of the set is applied too.
C15_ZeroReplicas ==
    \A set \in EmptySets :
        /\ servers.res.ok => \A i \in 0..MaxReplicas : EntriesFor(set, i) = {}
        /\ last.cr = set.id => last.res \in {"Ok", "KubeError"}
        /\ last = [cr |-> set.id, res |-> "Ok"] =>
              /\ \E w \in OwnedBy(set, STS) :
                    w.ns = set.ns /\ w.name = set.name /\ w.spec.replicas = 0
              /\ \E b \in OwnedBy(set, PDB) : b.ns = set.ns /\ b.name = set.name

\* set a has no replica and carries the label the proxy selects; its reconcile has
\* returned Ok, and the answer for the proxy holds entries of set b only
C15_Witness ==
    /\ store.sets[1] \in EmptySets
    /\ last = [cr |-> "a", res |-> "Ok"]
    /\ servers.res.ok
    /\ store.sets[1] \in MatchingSets
    /\ Len(servers.res.val) = 2

\* the names of the container's mounts at /data, and how many such mounts there are
DataMounts(w) ==
    {i \in 1..Len(w.spec.volume_mounts) : w.spec.volume_mounts[i].mount_path = "/data"}

DataMountNames(w) == {w.spec.volume_mounts[i].name : i \in DataMounts(w)}

VolumeNames(w) == {w.spec.volumes[i].name : i \in 1..Len(w.spec.volumes)}

TemplateNames(w) ==
    {w.spec.volume_claim_templates[i].name : i \in 1..Len(w.spec.volume_claim_templates)}

\* C16: the workload applied for a CR mounts the claim template at /data when
\* container.volumeClaimTemplate is set (container.volume is then left out), mounts
\* container.volume at /data when only that is set, and has no /data mount when
\* neither is set; there is never more than one /data mount and it names a volume
\* or claim template of the same workload.
C16_DataVolume ==
    \A cr \in WellFormed : \A w \in OwnedBy(cr, STS) :
        /\ cr.vct.present =>
              /\ w.spec.volume_claim_templates = << cr.vct >>
              /\ DataMountNames(w) = {cr.vct.name}
              /\ cr.volume \notin VolumeNames(w)
        /\ (~cr.vct.present /\ cr.volume # None) =>
              /\ cr.volume \in VolumeNames(w)
              /\ DataMountNames(w) = {cr.volume}
        /\ (~cr.vct.present /\ cr.volume = None) => DataMounts(w) = {}
        /\ Cardinality(DataMounts(w)) <= 1
        /\ DataMountNames(w) \subseteq VolumeNames(w) \cup TemplateNames(w)

\* C17: main waits on the set controller, the proxy controller and the HTTP server
\* at once; when one of them has returned main has returned and the process is
\* over, without any of the other two having returned.
C17_FirstTaskEnds ==
    /\ done \subseteq Tasks
    /\ done # {} => phase = "exited"
    /\ phase = "exited" => Cardinality(done) = 1

\* the server has stopped and the process is over while a reconcile of the set
\* controller is between its two patches
C17_Witness ==
    /\ phase = "exited"
    /\ done = {"server"}
    /\ pc["S1"] = [fn |-> "set", step |-> 2]

\* C18: when one of the four patches of a reconcile fails, the reconcile returns the
\* API error in that step and sends no further patch (a patch is only ever sent
\* after patches that succeeded); the children applied before it stay as they are,
\* and the metrics of a successful reconcile are not recorded.
C18_ErrorPropagation ==
    [][\A id \in CRIds :
         Len(issued'[id]) = Len(issued[id]) + 1 =>
            /\ \A i \in 1..Len(issued[id]) : issued[id][i].ok
            /\ ~issued'[id][Len(issued'[id])].ok =>
                  /\ last' = [cr |-> id, res |-> "KubeError"]
                  /\ pc'[id] = Idle
                  /\ cluster' = cluster
                  /\ metrics' = metrics]_vars

\* the service patch of the set failed after its budget and workload were applied:
\* the error is returned, the secret was never sent, the budget and the workload
\* are still there and no reconcile has been counted
C18_Witness ==
    /\ issued["S1"] = << [kind |-> PDB, ok |-> TRUE], [kind |-> STS, ok |-> TRUE],
                         [kind |-> SVC, ok |-> FALSE] >>
    /\ last = [cr |-> "S1", res |-> "KubeError"]
    /\ pc["S1"] = Idle
    /\ OwnedBy(CR("S1"), PDB) # {}
    /\ OwnedBy(CR("S1"), STS) # {}
    /\ ChildrenAt(CR("S1"), SEC) = {}
    /\ metrics = ZeroMetrics

\* C19: whenever the API server holds the workload applied for a CR it also holds
\* the disruption budget applied for that CR.
C19_BudgetBeforeWorkload ==
    \A cr \in WellFormed : OwnedBy(cr, STS) # {} => OwnedBy(cr, PDB) # {}

\* C20: the budget applied for a CR has maxUnavailable 0 and no minAvailable, and
\* its selector is the one pod label mycelium.njha.dev/<shortname>=<name of the CR>
\* of the CR's workload together with mycelium.njha.dev/destroyable=false.
C20_BudgetShape ==
    \A cr \in WellFormed : \A b \in OwnedBy(cr, PDB) :
        /\ b.spec.max_unavailable = 0
        /\ b.spec.min_available = None
        /\ b.spec.selector =
              {<<"mycelium.njha.dev/" \o ShortnameOf(cr.kind), cr.name>>,
               <<"mycelium.njha.dev/destroyable", "false">>}
        /\ \A w \in OwnedBy(cr, STS) :
              /\ Cardinality(w.spec.pod_labels) = 1
              /\ b.spec.selector =
                    w.spec.pod_labels \cup {<<"mycelium.njha.dev/destroyable", "false">>}

\* the budget and the workload of the proxy are both applied
C20_Witness ==
    /\ OwnedBy(CR("P1"), PDB) # {}
    /\ OwnedBy(CR("P1"), STS) # {}
    /\ pc["P1"].fn = "generic"

\* the one label that identifies the children of a CR
IdentityLabel(cr) == {<<"mycelium.njha.dev/" \o ShortnameOf(cr.kind), cr.name>>}

\* C21: for every reconciled CR of either kind the service selector, the
\* workload selector and the pod-template labels are the one label
\* mycelium.njha.dev/<shortname> = <cr-name>; the service is headless, the
\* workload's service name is the CR's name, and the service has the single TCP
\* port 25565 forwarded to 25565 for a set and to 25577 for a proxy.
C21_LabelConsistency ==
    \A cr \in WellFormed :
        /\ \A w \in OwnedBy(cr, STS) :
              /\ w.spec.selector = IdentityLabel(cr)
              /\ w.spec.pod_labels = IdentityLabel(cr)
              /\ w.spec.service_name = cr.name
        /\ \A s \in OwnedBy(cr, SVC) :
              /\ s.spec.selector = IdentityLabel(cr)
              /\ s.spec.cluster_ip = "None"
              /\ s.spec.ports = << [protocol |-> "TCP", port |-> ServicePortNum,
                                    target_port |-> PortOf(cr.kind)] >>

\* a step in which a reconcile of the CR begins: it goes on to its first patch,
\* or it is rejected on the spot and its verdict is recorded
AttemptBegins(id) ==
    /\ phase = "running"
    /\ pc[id] = Idle
    /\ \/ pc'[id] # Idle
       \/ last' # last /\ last'.cr = id

\* C22: every reconcile attempt stores the current time in last_event when it
\* begins, before its first patch is sent, whether it later succeeds, fails
\* with an API error, or is rejected for a structural error of the CR.
C22_Heartbeat ==
    [][\A id \in CRIds : AttemptBegins(id) => last_event' = clock]_vars

\* the reconciles that are suspended in a Kubernetes API call
Awaiting == {id \in CRIds : pc[id] # Idle}

\* C23: a reconcile holds the write lock only inside the statement that assigns
\* last_event and never while it awaits an API call; the /state handler holds
\* the read lock only while it copies the state; so with every task outside
\* those statements the lock is free, however many API calls are outstanding.
C23_LockScope ==
    /\ \A id \in CRIds :
          lock.writer = id => hb[id].at \in {"locked", "stored"} /\ id \notin Awaiting
    /\ "http" \in lock.readers => hb["http"].at = "locked"
    /\ (\A t \in StateTasks : hb[t].at \in {"none", "read"}) => lock = Unlocked

\* one reconcile is suspended in an API call while another one holds the write lock
C23_Witness ==
    \E a \in Awaiting : \E b \in CRIds \ {a} : lock.writer = b /\ hb[b].at = "stored"

\* C26: with a clock that never goes back, last_event never decreases, however
\* the reconciles of different CRs and of the two controllers interleave.
C26_Monotonic == [][last_event' >= last_event]_vars

\* two reconciles of different CRs are under way, both past their heartbeat,
\* and the later heartbeat has moved last_event forward
C26_Witness ==
    /\ \E a \in Awaiting : \E b \in Awaiting \ {a} : TRUE
    /\ last_event > 0

\* C24: a set or proxy reconcile that succeeds returns requeue_after = none, and
\* the only timed requeue the controller ever decides on is the 360 seconds
\* the error policy gives to a failure.
C24_NoRequeueOnSuccess ==
    /\ last.res = "Ok" => sched.cr = last.cr /\ ~sched.action.some
    /\ sched.action.some => sched.action.secs = RequeueSecs /\ sched.streak >= 1

\* a proxy reconcile has returned success after a set reconcile did
C24_Witness ==
    /\ last.res = "Ok"
    /\ last.cr # None
    /\ CR(last.cr).kind = "MinecraftProxy"
    /\ metrics.set_handled_events >= 1

\* the entry of an answer is the one of replica i of the j-th set of the store
IsEntryOf(e, j, i) == e.name = store.sets[j].name \o "-" \o ToString(i)

\* the place in the store, and the replica index, of the set an entry is named after
SetPos(e) ==
    CHOOSE j \in 1..Len(store.sets) : \E i \in 0..store.sets[j].replicas : IsEntryOf(e, j, i)
ReplicaOf(e) ==
    CHOOSE i \in 0..store.sets[SetPos(e)].replicas : IsEntryOf(e, SetPos(e), i)

\* C25: the entries of an answer come set by set in the order of the listing,
\* and within a set by replica index 0, 1, ..., replicas-1, entries of two sets
\* never interleaved; each entry carries its set's proxy.hostname as host and
\* proxy.priority as priority, and null for what the set leaves unset.
C25_JoinOrdering ==
    servers.res.ok =>
        LET res == servers.res.val
        IN  /\ \A k \in 1..Len(res) :
                  \E j \in 1..Len(store.sets) : \E i \in 0..(store.sets[j].replicas - 1) :
                      IsEntryOf(res[k], j, i)
            /\ \A k \in 1..Len(res) : \A l \in (k + 1)..Len(res) :
                  \/ SetPos(res[k]) < SetPos(res[l])
                  \/ SetPos(res[k]) = SetPos(res[l]) /\ ReplicaOf(res[k]) < ReplicaOf(res[l])
            /\ \A k \in 1..Len(res) :
                  ReplicaOf(res[k]) =
                      Cardinality({m \in 1..(k - 1) : SetPos(res[m]) = SetPos(res[k])})
            /\ \A k \in 1..Len(res) :
                  LET set == store.sets[SetPos(res[k])]
                  IN  /\ res[k].host = IF set.proxy.some THEN set.proxy.val.hostname ELSE None
                      /\ res[k].priority =
                             IF set.proxy.some THEN set.proxy.val.priority ELSE NoneOpt

\* an answer with both replicas of the first set, carrying its hostname and
\* priority, followed by an entry of the second set, which has no proxy options
C25_Witness ==
    /\ servers.res.ok
    /\ Len(servers.res.val) >= 3
    /\ servers.res.val[1].host = "a.example" /\ servers.res.val[1].priority = Some(1)
    /\ servers.res.val[2].host = "a.example"
    /\ servers.res.val[3].host = None /\ servers.res.val[3].priority = NoneOpt

\* C27: whenever the workload applied for a CR exists, the secret named like the
\* CR, which the workload's MYCELIUM_FW_TOKEN entry references as non-optional,
\* exists too; also after a crash or an API failure between two patches.
C27_SecretAvailable ==
    \A cr \in WellFormed :
        OwnedBy(cr, STS) # {} => ChildrenAt(cr, SEC) # {}

\* C28: no child object written by the reconciles of one CR is written again by
\* the reconciles of another CR, a MinecraftSet and a MinecraftProxy of one name
\* and namespace included: an object the API server holds keeps the owner
\* reference, the labels and the target port of the CR it was first written for.
C28_ChildIsolation ==
    [][\A o \in cluster : \A n \in cluster' :
          SameKey(n, o) => /\ n.owner_references = o.owner_references
                           /\ o.kind \in {STS, SVC} => n.spec.selector = o.spec.selector
                           /\ o.kind = SVC => n.spec.ports = o.spec.ports]_vars

\* the reconciles of one kind that return success in a step
ReturnsOk(kind) ==
    {id \in CRIds : /\ CR(id).kind = kind
                    /\ pc[id] # Idle /\ pc'[id] = Idle
                    /\ last'.cr = id /\ last'.res = "Ok"}

\* C29: the counters start at zero with the process; from then on the mcset
\* counter and histogram grow by one exactly in the steps in which a set
\* reconcile returns success, and the proxy counter and histogram exactly when
\* a proxy reconcile does: a failing reconcile changes no metric, and a
\* reconcile of one kind leaves the metrics of the other kind alone.
C29_MetricsAccounting ==
    [][IF phase = "startup"
       THEN phase' = "running" => metrics' = ZeroMetrics
       ELSE /\ metrics'.set_handled_events =
                  metrics.set_handled_events + Cardinality(ReturnsOk("MinecraftSet"))
            /\ metrics'.set_reconcile_duration =
                  metrics.set_reconcile_duration + Cardinality(ReturnsOk("MinecraftSet"))
            /\ metrics'.proxy_handled_events =
                  metrics.proxy_handled_events + Cardinality(ReturnsOk("MinecraftProxy"))
            /\ metrics'.proxy_reconcile_duration =
                  metrics.proxy_reconcile_duration + Cardinality(ReturnsOk("MinecraftProxy"))]_vars

\* a set reconcile has succeeded and a proxy reconcile has then failed on a
\* patch: one set event is counted and no proxy event
C29_Witness ==
    /\ metrics.set_handled_events = 1 /\ metrics.set_reconcile_duration = 1
    /\ metrics.proxy_handled_events = 0 /\ metrics.proxy_reconcile_duration = 0
    /\ last = [cr |-> "P1", res |-> "KubeError"]

====
